---------------------------- MODULE Spec2Model ----------------------------
(***************************************************************************)
(* Connect-4 agent: board and move generation (game_logic.py), the window  *)
(* heuristic and the alpha-beta search of the terminal player              *)
(* (ai_terminal.py), the instrumented searches of the benchmark            *)
(* (connect4_evaluation.py) and the move-returning search of the GUI       *)
(* (pygame_gui.py).                                                        *)
(*                                                                         *)
(* Rows and columns are 0-based as in the source; row 0 is the top row.    *)
(* A board is a function [0..ROWS-1 -> [0..COLS-1 -> 0..2]].               *)
(***************************************************************************)
EXTENDS Integers, Sequences, FiniteSets, TLC

ROWS == 6
COLS == 7

\* float('inf') / math.inf: larger than any sum of window scores
\* (69 windows, each within -1500..1000).
Inf == 1000000

\* Python's None (best_col before any column was scored, the row returned
\* by get_next_open_row for a full column, the column of a leaf result).
None == -1

Players == {1, 2}

Other(p) == IF p = 1 THEN 2 ELSE 1

Max(a, b) == IF a >= b THEN a ELSE b

Min(a, b) == IF a <= b THEN a ELSE b

----------------------------------------------------------------------------
(* game_logic.py *)

create_board == [r \in 0..(ROWS - 1) |-> [c \in 0..(COLS - 1) |-> 0]]

is_valid_location(board, col) ==
    IF col < 0 \/ col >= COLS THEN FALSE ELSE board[0][col] = 0

\* get_next_open_row scanning from the top row down.
get_next_open_row_from_top(board, col) ==
    LET open == {r \in 0..(ROWS - 1) : board[r][col] = 0}
    IN  IF open = {} THEN None
        ELSE CHOOSE r \in open : \A q \in open : r <= q

\* for r in range(ROWS - 1, -1, -1): the first empty cell from the bottom;
\* the loop falls through (None) when the column has no empty cell.
get_next_open_row(board, col) ==
    LET open == {r \in 0..(ROWS - 1) : board[r][col] = 0}
    IN  IF open = {} THEN None
        ELSE CHOOSE r \in open : \A q \in open : q <= r

\* board[row][col] = player.  With row = None (what get_next_open_row
\* returns for a full column) board[None] is the numpy view of the board
\* under a new leading axis of length 1: index 0 of it is the whole board,
\* so the assignment writes player into every cell; any other index of that
\* axis raises IndexError (drop_piece_raises) before a cell is written.
drop_piece(board, row, col, player) ==
    IF row = None
    THEN [r \in 0..(ROWS - 1) |-> [c \in 0..(COLS - 1) |-> player]]
    ELSE [board EXCEPT ![row][col] = player]

drop_piece_raises(row, col) ==
    IF row = None /\ col # 0 THEN "IndexError" ELSE ""

\* The four window loops of check_win (and of heuristic), each window as the
\* four <<row, column>> pairs it reads, in the order the loops produce them.
HorizontalWindows ==
    [k \in 1..(ROWS * (COLS - 3)) |->
        LET r == (k - 1) \div (COLS - 3)
            c == (k - 1) % (COLS - 3)
        IN  [i \in 0..3 |-> <<r, c + i>>]]

VerticalWindows ==
    [k \in 1..((ROWS - 3) * COLS) |->
        LET r == (k - 1) \div COLS
            c == (k - 1) % COLS
        IN  [i \in 0..3 |-> <<r + i, c>>]]

PositiveDiagonalWindows ==
    [k \in 1..((ROWS - 3) * (COLS - 3)) |->
        LET r == (k - 1) \div (COLS - 3)
            c == (k - 1) % (COLS - 3)
        IN  [i \in 0..3 |-> <<r + i, c + i>>]]

\* The negative-diagonal loop with `range(3, ROWS - 1)`: the windows that
\* start in the bottom row are left out.
NegativeDiagonalWindowsShort ==
    [k \in 1..((ROWS - 4) * (COLS - 3)) |->
        LET r == 3 + ((k - 1) \div (COLS - 3))
            c == (k - 1) % (COLS - 3)
        IN  [i \in 0..3 |-> <<r - i, c + i>>]]

NegativeDiagonalWindows ==
    [k \in 1..((ROWS - 3) * (COLS - 3)) |->
        LET r == 3 + ((k - 1) \div (COLS - 3))
            c == (k - 1) % (COLS - 3)
        IN  [i \in 0..3 |-> <<r - i, c + i>>]]

WindowHolds(board, w, player) ==
    \A i \in 0..3 : board[w[i][1]][w[i][2]] = player

check_win(board, player) ==
    \/ \E k \in DOMAIN HorizontalWindows :
          WindowHolds(board, HorizontalWindows[k], player)
    \/ \E k \in DOMAIN VerticalWindows :
          WindowHolds(board, VerticalWindows[k], player)
    \/ \E k \in DOMAIN PositiveDiagonalWindows :
          WindowHolds(board, PositiveDiagonalWindows[k], player)
    \/ \E k \in DOMAIN NegativeDiagonalWindows :
          WindowHolds(board, NegativeDiagonalWindows[k], player)

is_draw(board) == \A c \in 0..(COLS - 1) : board[0][c] # 0

\* The legal columns in ascending order (for c in range(COLS): if
\* is_valid_location(board, c)).
RECURSIVE ValidFrom(_, _)
ValidFrom(board, c) ==
    IF c >= COLS THEN <<>>
    ELSE IF is_valid_location(board, c)
         THEN <<c>> \o ValidFrom(board, c + 1)
         ELSE ValidFrom(board, c + 1)

valid_locations(board) == ValidFrom(board, 0)

get_children(board, player) ==
    LET cols == valid_locations(board)
    IN  [k \in 1..Len(cols) |->
            drop_piece(board, get_next_open_row(board, cols[k]), cols[k], player)]

----------------------------------------------------------------------------
(* Boards as objects.  A store is the sequence of the numpy arrays that     *)
(* exist; a board reference is an index into it.  drop_piece writes the     *)
(* array it is handed, board.copy() makes a new one.                        *)

\* board.copy() with the new array being the old one
store_copy_alias(store, ref) == [store |-> store, ref |-> ref]

\* board.copy()
store_copy(store, ref) ==
    [store |-> Append(store, store[ref]), ref |-> Len(store) + 1]

\* drop_piece(board, row, col, player): board[row][col] = player, in place
store_drop_piece(store, ref, row, col, player) ==
    [store EXCEPT ![ref] = drop_piece(@, row, col, player)]

\* get_children: for c in range(COLS): if is_valid_location(board, c): ...
RECURSIVE store_get_children_loop(_, _, _, _, _)
store_get_children_loop(store, ref, player, c, children) ==
    IF c >= COLS THEN [store |-> store, children |-> children]
    ELSE IF is_valid_location(store[ref], c)
         THEN LET row == get_next_open_row(store[ref], c)
                  new_board == store_copy(store, ref)
              IN  store_get_children_loop(
                      store_drop_piece(new_board.store, new_board.ref, row, c, player),
                      ref, player, c + 1, Append(children, new_board.ref))
         ELSE store_get_children_loop(store, ref, player, c + 1, children)

store_get_children(store, ref, player) ==
    store_get_children_loop(store, ref, player, 0, <<>>)

----------------------------------------------------------------------------
(* ai_terminal.py: heuristic *)

\* The list of the four cells of window w, as heuristic builds it.
Window(board, w) ==
    << board[w[0][1]][w[0][2]], board[w[1][1]][w[1][2]],
       board[w[2][1]][w[2][2]], board[w[3][1]][w[3][2]] >>

\* window.count(x)
Count(window, x) ==
      (IF window[1] = x THEN 1 ELSE 0) + (IF window[2] = x THEN 1 ELSE 0)
    + (IF window[3] = x THEN 1 ELSE 0) + (IF window[4] = x THEN 1 ELSE 0)

\* score_window without the branch for four own pieces.
score_window_without_four(window, player) ==
    LET opponent == IF player = 1 THEN 2 ELSE 1
        own   == Count(window, player)
        opp   == Count(window, opponent)
        empty == Count(window, 0)
        offensive == IF own = 3 /\ empty = 1 THEN 100
                     ELSE IF own = 2 /\ empty = 2 THEN 10
                     ELSE 0
        defensive == IF opp = 4 THEN 1500
                     ELSE IF opp = 3 /\ empty = 1 THEN 100
                     ELSE IF opp = 2 /\ empty = 2 THEN 10
                     ELSE 0
    IN  offensive - defensive

\* score_window without the branch for three opposing pieces.
score_window_without_opponent_three(window, player) ==
    LET opponent == IF player = 1 THEN 2 ELSE 1
        own   == Count(window, player)
        opp   == Count(window, opponent)
        empty == Count(window, 0)
        offensive == IF own = 4 THEN 1000
                     ELSE IF own = 3 /\ empty = 1 THEN 100
                     ELSE IF own = 2 /\ empty = 2 THEN 10
                     ELSE 0
        defensive == IF opp = 4 THEN 1500
                     ELSE IF opp = 2 /\ empty = 2 THEN 10
                     ELSE 0
    IN  offensive - defensive

\* score_window scoring three own pieces whatever the fourth cell holds.
score_window_three_any(window, player) ==
    LET opponent == IF player = 1 THEN 2 ELSE 1
        own   == Count(window, player)
        opp   == Count(window, opponent)
        empty == Count(window, 0)
        offensive == IF own = 4 THEN 1000
                     ELSE IF own = 3 THEN 100
                     ELSE IF own = 2 /\ empty = 2 THEN 10
                     ELSE 0
        defensive == IF opp = 4 THEN 1500
                     ELSE IF opp = 3 /\ empty = 1 THEN 100
                     ELSE IF opp = 2 /\ empty = 2 THEN 10
                     ELSE 0
    IN  offensive - defensive

score_window(window, player) ==
    LET opponent == IF player = 1 THEN 2 ELSE 1
        own   == Count(window, player)
        opp   == Count(window, opponent)
        empty == Count(window, 0)
        offensive == IF own = 4 THEN 1000
                     ELSE IF own = 3 /\ empty = 1 THEN 100
                     ELSE IF own = 2 /\ empty = 2 THEN 10
                     ELSE 0
        defensive == IF opp = 4 THEN 1500
                     ELSE IF opp = 3 /\ empty = 1 THEN 100
                     ELSE IF opp = 2 /\ empty = 2 THEN 10
                     ELSE 0
    IN  offensive - defensive

RECURSIVE SumWindows(_, _, _, _)
SumWindows(board, ws, k, player) ==
    IF k > Len(ws) THEN 0
    ELSE score_window(Window(board, ws[k]), player)
         + SumWindows(board, ws, k + 1, player)

heuristic(board, player) ==
      SumWindows(board, HorizontalWindows, 1, player)
    + SumWindows(board, VerticalWindows, 1, player)
    + SumWindows(board, PositiveDiagonalWindows, 1, player)
    + SumWindows(board, NegativeDiagonalWindows, 1, player)

\* `check_win(board, 1) or check_win(board, 2) or is_draw(board)`, the
\* terminal test every search makes next to `depth == 0`.
Terminal(board) == check_win(board, 1) \/ check_win(board, 2) \/ is_draw(board)

----------------------------------------------------------------------------
(* ai_terminal.py: minimax (alpha-beta, leaves scored for player 1) *)

RECURSIVE minimax(_, _, _, _, _)
RECURSIVE MinimaxLoop(_, _, _, _, _, _, _)

\* The `for child in get_children(...)` loops of minimax; value is max_eval
\* or min_eval.
MinimaxLoop(children, k, depth, alpha, beta, maximizing_player, value) ==
    IF k > Len(children) THEN value
    ELSE LET eval == minimax(children[k], depth - 1, alpha, beta, ~maximizing_player)
             value2 == IF maximizing_player THEN Max(value, eval) ELSE Min(value, eval)
             alpha2 == IF maximizing_player THEN Max(alpha, eval) ELSE alpha
             beta2  == IF maximizing_player THEN beta ELSE Min(beta, eval)
         IN  IF beta2 <= alpha2 THEN value2
             ELSE MinimaxLoop(children, k + 1, depth, alpha2, beta2,
                              maximizing_player, value2)

\* evaluate_board(board, player): the heuristic with the overrides for won,
\* lost and drawn boards.  No search calls it.
evaluate_board(board, player) ==
    IF check_win(board, player) THEN Inf
    ELSE IF check_win(board, Other(player)) THEN -Inf
    ELSE IF is_draw(board) THEN 0
    ELSE heuristic(board, player)

\* minimax scoring its leaves by evaluate_board.
minimax_by_evaluate_board(board, depth, alpha, beta, maximizing_player) ==
    IF depth = 0 \/ Terminal(board)
    THEN evaluate_board(board, 1)
    ELSE IF maximizing_player
         THEN MinimaxLoop(get_children(board, 1), 1, depth, alpha, beta, TRUE, -Inf)
         ELSE MinimaxLoop(get_children(board, 2), 1, depth, alpha, beta, FALSE, Inf)

\* minimax whose base case leaves out is_draw.
minimax_without_draw(board, depth, alpha, beta, maximizing_player) ==
    IF depth = 0 \/ check_win(board, 1) \/ check_win(board, 2)
    THEN heuristic(board, 1)
    ELSE IF maximizing_player
         THEN MinimaxLoop(get_children(board, 1), 1, depth, alpha, beta, TRUE, -Inf)
         ELSE MinimaxLoop(get_children(board, 2), 1, depth, alpha, beta, FALSE, Inf)

minimax(board, depth, alpha, beta, maximizing_player) ==
    IF depth = 0 \/ Terminal(board)
    THEN heuristic(board, 1)
    ELSE IF maximizing_player
         THEN MinimaxLoop(get_children(board, 1), 1, depth, alpha, beta, TRUE, -Inf)
         ELSE MinimaxLoop(get_children(board, 2), 1, depth, alpha, beta, FALSE, Inf)

\* The column loop with `score >= best_score`.
RECURSIVE best_col_loop_or_equal(_, _, _, _, _)
best_col_loop_or_equal(board, depth, c, best_score, best_col) ==
    IF c >= COLS THEN [col |-> best_col, v |-> best_score]
    ELSE IF is_valid_location(board, c)
         THEN LET r == get_next_open_row(board, c)
                  temp_board == drop_piece(board, r, c, 1)
                  score == minimax(temp_board, depth - 1, -Inf, Inf, FALSE)
              IN  IF score >= best_score
                  THEN best_col_loop_or_equal(board, depth, c + 1, score, c)
                  ELSE best_col_loop_or_equal(board, depth, c + 1, best_score, best_col)
         ELSE best_col_loop_or_equal(board, depth, c + 1, best_score, best_col)

\* The column loop of play_game_vs_ai (AI MOVE): every legal column is
\* scored by minimax on a copy of the board, and best_col is replaced when
\* `score > best_score`.
RECURSIVE best_col_loop(_, _, _, _, _)
best_col_loop(board, depth, c, best_score, best_col) ==
    IF c >= COLS THEN [col |-> best_col, v |-> best_score]
    ELSE IF is_valid_location(board, c)
         THEN LET r == get_next_open_row(board, c)
                  temp_board == drop_piece(board, r, c, 1)
                  score == minimax(temp_board, depth - 1, -Inf, Inf, FALSE)
              IN  IF score > best_score
                  THEN best_col_loop(board, depth, c + 1, score, c)
                  ELSE best_col_loop(board, depth, c + 1, best_score, best_col)
         ELSE best_col_loop(board, depth, c + 1, best_score, best_col)

\* ai_move with best_score starting at +inf.
ai_move_from_inf(board, depth) == best_col_loop(board, depth, 0, Inf, None)

\* best_score = -math.inf; best_col = None; for c in range(COLS): ...
ai_move(board, depth) == best_col_loop(board, depth, 0, -Inf, None)

----------------------------------------------------------------------------
(* connect4_evaluation.py: instrumented searches.  A result is a record    *)
(* [v: the returned score, n: the increments of counter['nodes'],          *)
(*  cut: how often the `beta <= alpha` break fired,                        *)
(*  skip: how often it fired with children still unvisited].               *)

RECURSIVE minimax_no_pruning(_, _, _)
RECURSIVE NpLoop(_, _, _, _, _, _)

NpLoop(children, k, depth, maximizing_player, value, n) ==
    IF k > Len(children) THEN [v |-> value, n |-> n]
    ELSE LET r == minimax_no_pruning(children[k], depth - 1, ~maximizing_player)
             better == IF maximizing_player THEN r.v > value ELSE r.v < value
         IN  NpLoop(children, k + 1, depth, maximizing_player,
                    IF better THEN r.v ELSE value, n + r.n)

\* minimax_no_pruning that does not count the nodes it scores by heuristic.
minimax_no_pruning_uncounted_leaves(board, depth, maximizing_player) ==
    IF depth = 0 \/ Terminal(board)
    THEN [v |-> heuristic(board, 1), n |-> 0]
    ELSE IF maximizing_player
         THEN NpLoop(get_children(board, 1), 1, depth, TRUE, -Inf, 1)
         ELSE NpLoop(get_children(board, 2), 1, depth, FALSE, Inf, 1)

minimax_no_pruning(board, depth, maximizing_player) ==
    IF depth = 0 \/ Terminal(board)
    THEN [v |-> heuristic(board, 1), n |-> 1]
    ELSE IF maximizing_player
         THEN NpLoop(get_children(board, 1), 1, depth, TRUE, -Inf, 1)
         ELSE NpLoop(get_children(board, 2), 1, depth, FALSE, Inf, 1)

RECURSIVE minimax_ab(_, _, _, _, _)
RECURSIVE AbLoop(_, _, _, _, _, _, _, _, _, _)

\* The loop of minimax_ab lowering beta in the maximizing branch as well.
RECURSIVE AbLoopBothBounds(_, _, _, _, _, _, _, _, _, _)
AbLoopBothBounds(children, k, depth, alpha, beta, maximizing_player, value, n, cut, skip) ==
    IF k > Len(children) THEN [v |-> value, n |-> n, cut |-> cut, skip |-> skip]
    ELSE LET r == minimax_ab(children[k], depth - 1, alpha, beta, ~maximizing_player)
             better == IF maximizing_player THEN r.v > value ELSE r.v < value
             value2 == IF better THEN r.v ELSE value
             alpha2 == IF maximizing_player THEN Max(alpha, r.v) ELSE alpha
             beta2  == Min(beta, r.v)
         IN  IF beta2 <= alpha2
             THEN [v |-> value2, n |-> n + r.n, cut |-> cut + r.cut + 1,
                   skip |-> skip + r.skip + (IF k < Len(children) THEN 1 ELSE 0)]
             ELSE AbLoopBothBounds(children, k + 1, depth, alpha2, beta2,
                                   maximizing_player, value2, n + r.n,
                                   cut + r.cut, skip + r.skip)

\* The loop of minimax_ab without the break: `beta <= alpha` is recorded and
\* the remaining children are searched all the same.
RECURSIVE AbLoopNoBreak(_, _, _, _, _, _, _, _, _, _)
AbLoopNoBreak(children, k, depth, alpha, beta, maximizing_player, value, n, cut, skip) ==
    IF k > Len(children) THEN [v |-> value, n |-> n, cut |-> cut, skip |-> skip]
    ELSE LET r == minimax_ab(children[k], depth - 1, alpha, beta, ~maximizing_player)
             better == IF maximizing_player THEN r.v > value ELSE r.v < value
             value2 == IF better THEN r.v ELSE value
             alpha2 == IF maximizing_player THEN Max(alpha, r.v) ELSE alpha
             beta2  == IF maximizing_player THEN beta ELSE Min(beta, r.v)
             fired  == IF beta2 <= alpha2 THEN 1 ELSE 0
         IN  AbLoopNoBreak(children, k + 1, depth, alpha2, beta2, maximizing_player,
                           value2, n + r.n, cut + r.cut + fired,
                           skip + r.skip + (IF k < Len(children) THEN fired ELSE 0))

AbLoop(children, k, depth, alpha, beta, maximizing_player, value, n, cut, skip) ==
    IF k > Len(children) THEN [v |-> value, n |-> n, cut |-> cut, skip |-> skip]
    ELSE LET r == minimax_ab(children[k], depth - 1, alpha, beta, ~maximizing_player)
             better == IF maximizing_player THEN r.v > value ELSE r.v < value
             value2 == IF better THEN r.v ELSE value
             alpha2 == IF maximizing_player THEN Max(alpha, r.v) ELSE alpha
             beta2  == IF maximizing_player THEN beta ELSE Min(beta, r.v)
         IN  IF beta2 <= alpha2
             THEN [v |-> value2, n |-> n + r.n, cut |-> cut + r.cut + 1,
                   skip |-> skip + r.skip + (IF k < Len(children) THEN 1 ELSE 0)]
             ELSE AbLoop(children, k + 1, depth, alpha2, beta2, maximizing_player,
                         value2, n + r.n, cut + r.cut, skip + r.skip)

minimax_ab(board, depth, alpha, beta, maximizing_player) ==
    IF depth = 0 \/ Terminal(board)
    THEN [v |-> heuristic(board, 1), n |-> 1, cut |-> 0, skip |-> 0]
    ELSE IF maximizing_player
         THEN AbLoop(get_children(board, 1), 1, depth, alpha, beta, TRUE, -Inf, 1, 0, 0)
         ELSE AbLoop(get_children(board, 2), 1, depth, alpha, beta, FALSE, Inf, 1, 0, 0)

\* minimax_ab stopping at a node budget read from the counter.
minimax_ab_node_budget(board, depth, alpha, beta, maximizing_player, counter) ==
    IF counter > 0
    THEN [v |-> heuristic(board, 1), counter |-> counter + 1]
    ELSE LET r == minimax_ab(board, depth, alpha, beta, maximizing_player)
         IN  [v |-> r.v, counter |-> counter + r.n]

\* minimax_ab(board, depth, alpha, beta, maximizing_player, counter) with
\* counter = {'nodes': counter}: the only statement that touches the dict is
\* counter['nodes'] += 1 at the head of every invocation, so the dict ends
\* at its initial value plus the number of invocations.  Result: the score
\* and counter['nodes'] after the call.
minimax_ab_counter(board, depth, alpha, beta, maximizing_player, counter) ==
    LET r == minimax_ab(board, depth, alpha, beta, maximizing_player)
    IN  [v |-> r.v, counter |-> counter + r.n]

----------------------------------------------------------------------------
(* pygame_gui.py: minimax_with_col, result [col, v] *)

RECURSIVE minimax_with_col(_, _, _, _, _, _)
RECURSIVE WithColLoop(_, _, _, _, _, _, _, _, _, _)

\* The loop of minimax_with_col replacing best_col on an equal score too.
RECURSIVE WithColLoopOrEqual(_, _, _, _, _, _, _, _, _, _)
WithColLoopOrEqual(board, cols, k, depth, alpha, beta, maximizing, ai_player, value, best_col) ==
    IF k > Len(cols) THEN [col |-> best_col, v |-> value]
    ELSE LET col == cols[k]
             row == get_next_open_row(board, col)
             mover == IF maximizing THEN ai_player
                      ELSE (IF ai_player = 2 THEN 1 ELSE 2)
             temp == drop_piece(board, row, col, mover)
             score == minimax_with_col(temp, depth - 1, alpha, beta,
                                       ~maximizing, ai_player).v
             better == IF maximizing THEN score >= value ELSE score <= value
             value2 == IF better THEN score ELSE value
             best2  == IF better THEN col ELSE best_col
             alpha2 == IF maximizing THEN Max(alpha, value2) ELSE alpha
             beta2  == IF maximizing THEN beta ELSE Min(beta, value2)
         IN  IF alpha2 >= beta2 THEN [col |-> best2, v |-> value2]
             ELSE WithColLoopOrEqual(board, cols, k + 1, depth, alpha2, beta2,
                                     maximizing, ai_player, value2, best2)

WithColLoop(board, cols, k, depth, alpha, beta, maximizing, ai_player, value, best_col) ==
    IF k > Len(cols) THEN [col |-> best_col, v |-> value]
    ELSE LET col == cols[k]
             row == get_next_open_row(board, col)
             mover == IF maximizing THEN ai_player
                      ELSE (IF ai_player = 2 THEN 1 ELSE 2)
             temp == drop_piece(board, row, col, mover)
             score == minimax_with_col(temp, depth - 1, alpha, beta,
                                       ~maximizing, ai_player).v
             better == IF maximizing THEN score > value ELSE score < value
             value2 == IF better THEN score ELSE value
             best2  == IF better THEN col ELSE best_col
             alpha2 == IF maximizing THEN Max(alpha, value2) ELSE alpha
             beta2  == IF maximizing THEN beta ELSE Min(beta, value2)
         IN  IF alpha2 >= beta2 THEN [col |-> best2, v |-> value2]
             ELSE WithColLoop(board, cols, k + 1, depth, alpha2, beta2, maximizing,
                              ai_player, value2, best2)

minimax_with_col(board, depth, alpha, beta, maximizing, ai_player) ==
    LET valid == valid_locations(board)
    IN  IF depth = 0 \/ Terminal(board)
        THEN [col |-> None, v |-> heuristic(board, ai_player)]
        ELSE WithColLoop(board, valid, 1, depth, alpha, beta, maximizing, ai_player,
                         IF maximizing THEN -Inf ELSE Inf, valid[1])

----------------------------------------------------------------------------
(* The searches over the store of arrays: every function takes the store   *)
(* and the reference of the board it is handed, and returns its result     *)
(* together with the store it leaves behind.                                *)

RECURSIVE store_minimax(_, _, _, _, _, _)
RECURSIVE store_minimax_loop(_, _, _, _, _, _, _, _)

\* ai_terminal.minimax: for child in get_children(board, p): ...
store_minimax_loop(store, children, k, depth, alpha, beta, maximizing_player, value) ==
    IF k > Len(children) THEN [v |-> value, store |-> store]
    ELSE LET r == store_minimax(store, children[k], depth - 1, alpha, beta,
                                ~maximizing_player)
             value2 == IF maximizing_player THEN Max(value, r.v) ELSE Min(value, r.v)
             alpha2 == IF maximizing_player THEN Max(alpha, r.v) ELSE alpha
             beta2  == IF maximizing_player THEN beta ELSE Min(beta, r.v)
         IN  IF beta2 <= alpha2 THEN [v |-> value2, store |-> r.store]
             ELSE store_minimax_loop(r.store, children, k + 1, depth, alpha2, beta2,
                                     maximizing_player, value2)

store_minimax(store, board, depth, alpha, beta, maximizing_player) ==
    IF depth = 0 \/ Terminal(store[board])
    THEN [v |-> heuristic(store[board], 1), store |-> store]
    ELSE LET got == store_get_children(store, board,
                                       IF maximizing_player THEN 1 ELSE 2)
         IN  store_minimax_loop(got.store, got.children, 1, depth, alpha, beta,
                                maximizing_player,
                                IF maximizing_player THEN -Inf ELSE Inf)

RECURSIVE store_minimax_ab(_, _, _, _, _, _)
RECURSIVE store_minimax_ab_loop(_, _, _, _, _, _, _, _)

\* connect4_evaluation.minimax_ab: for child in get_children(board, p): ...
store_minimax_ab_loop(store, children, k, depth, alpha, beta, maximizing_player, value) ==
    IF k > Len(children) THEN [v |-> value, store |-> store]
    ELSE LET r == store_minimax_ab(store, children[k], depth - 1, alpha, beta,
                                   ~maximizing_player)
             better == IF maximizing_player THEN r.v > value ELSE r.v < value
             value2 == IF better THEN r.v ELSE value
             alpha2 == IF maximizing_player THEN Max(alpha, r.v) ELSE alpha
             beta2  == IF maximizing_player THEN beta ELSE Min(beta, r.v)
         IN  IF beta2 <= alpha2 THEN [v |-> value2, store |-> r.store]
             ELSE store_minimax_ab_loop(r.store, children, k + 1, depth, alpha2,
                                        beta2, maximizing_player, value2)

store_minimax_ab(store, board, depth, alpha, beta, maximizing_player) ==
    IF depth = 0 \/ Terminal(store[board])
    THEN [v |-> heuristic(store[board], 1), store |-> store]
    ELSE LET got == store_get_children(store, board,
                                       IF maximizing_player THEN 1 ELSE 2)
         IN  store_minimax_ab_loop(got.store, got.children, 1, depth, alpha, beta,
                                   maximizing_player,
                                   IF maximizing_player THEN -Inf ELSE Inf)

RECURSIVE store_minimax_no_pruning(_, _, _, _)
RECURSIVE store_minimax_no_pruning_loop(_, _, _, _, _, _)

\* connect4_evaluation.minimax_no_pruning: for child in get_children(board, p): ...
store_minimax_no_pruning_loop(store, children, k, depth, maximizing_player, value) ==
    IF k > Len(children) THEN [v |-> value, store |-> store]
    ELSE LET r == store_minimax_no_pruning(store, children[k], depth - 1,
                                           ~maximizing_player)
             better == IF maximizing_player THEN r.v > value ELSE r.v < value
         IN  IF better
             THEN store_minimax_no_pruning_loop(r.store, children, k + 1, depth,
                                                maximizing_player, r.v)
             ELSE store_minimax_no_pruning_loop(r.store, children, k + 1, depth,
                                                maximizing_player, value)

store_minimax_no_pruning(store, board, depth, maximizing_player) ==
    IF depth = 0 \/ Terminal(store[board])
    THEN [v |-> heuristic(store[board], 1), store |-> store]
    ELSE LET got == store_get_children(store, board,
                                       IF maximizing_player THEN 1 ELSE 2)
         IN  store_minimax_no_pruning_loop(got.store, got.children, 1, depth,
                                           maximizing_player,
                                           IF maximizing_player THEN -Inf ELSE Inf)

RECURSIVE store_minimax_with_col(_, _, _, _, _, _, _)
RECURSIVE store_minimax_with_col_loop(_, _, _, _, _, _, _, _, _, _, _)

\* pygame_gui.minimax_with_col: for col in valid_locations:
\*     row = get_next_open_row(board, col); temp = board.copy();
\*     drop_piece(temp, row, col, mover); minimax_with_col(temp, ...)
store_minimax_with_col_loop(store, board, cols, k, depth, alpha, beta, maximizing, ai_player, value, best_col) ==
    IF k > Len(cols) THEN [col |-> best_col, v |-> value, store |-> store]
    ELSE LET col == cols[k]
             row == get_next_open_row(store[board], col)
             mover == IF maximizing THEN ai_player
                      ELSE (IF ai_player = 2 THEN 1 ELSE 2)
             temp == store_copy(store, board)
             r == store_minimax_with_col(
                      store_drop_piece(temp.store, temp.ref, row, col, mover),
                      temp.ref, depth - 1, alpha, beta, ~maximizing, ai_player)
             better == IF maximizing THEN r.v > value ELSE r.v < value
             value2 == IF better THEN r.v ELSE value
             best2  == IF better THEN col ELSE best_col
             alpha2 == IF maximizing THEN Max(alpha, value2) ELSE alpha
             beta2  == IF maximizing THEN beta ELSE Min(beta, value2)
         IN  IF alpha2 >= beta2 THEN [col |-> best2, v |-> value2, store |-> r.store]
             ELSE store_minimax_with_col_loop(r.store, board, cols, k + 1, depth,
                                              alpha2, beta2, maximizing, ai_player,
                                              value2, best2)

store_minimax_with_col(store, board, depth, alpha, beta, maximizing, ai_player) ==
    LET valid == valid_locations(store[board])
    IN  IF depth = 0 \/ Terminal(store[board])
        THEN [col |-> None, v |-> heuristic(store[board], ai_player), store |-> store]
        ELSE store_minimax_with_col_loop(store, board, valid, 1, depth, alpha, beta,
                                         maximizing, ai_player,
                                         IF maximizing THEN -Inf ELSE Inf, valid[1])

\* play_game_vs_ai (AI MOVE): for c in range(COLS): if is_valid_location(board, c):
\*     temp_board = board.copy(); drop_piece(temp_board, r, c, 1);
\*     score = minimax(temp_board, depth - 1, -inf, inf, False)
RECURSIVE store_best_col_loop(_, _, _, _, _, _)
store_best_col_loop(store, board, depth, c, best_score, best_col) ==
    IF c >= COLS THEN [col |-> best_col, v |-> best_score, store |-> store]
    ELSE IF is_valid_location(store[board], c)
         THEN LET r == get_next_open_row(store[board], c)
                  temp_board == store_copy(store, board)
                  score == store_minimax(
                               store_drop_piece(temp_board.store, temp_board.ref, r, c, 1),
                               temp_board.ref, depth - 1, -Inf, Inf, FALSE)
              IN  IF score.v > best_score
                  THEN store_best_col_loop(score.store, board, depth, c + 1, score.v, c)
                  ELSE store_best_col_loop(score.store, board, depth, c + 1,
                                           best_score, best_col)
         ELSE store_best_col_loop(store, board, depth, c + 1, best_score, best_col)

----------------------------------------------------------------------------
(* State *)

VARIABLES
    board,      \* the caller's board
    player,     \* the player who moves next
    moves,      \* the columns entered so far
    game_over,  \* the loop that grows the board has ended
    run         \* the call made last on the board, and what it returned

vars == <<board, player, moves, game_over, run>>

Idle == [op |-> "idle", depth |-> 0, maximizing |-> FALSE, ai |-> 0,
         col |-> None, v |-> 0, np_v |-> 0, np_n |-> 0,
         ab_n |-> 0, cut |-> 0, skip |-> 0, won |-> <<FALSE, FALSE>>,
         row |-> None, raised |-> "", wrote |-> FALSE,
         mm_v |-> 0, wc_v |-> 0, wc_col |-> None,
         alpha |-> 0, beta |-> 0, counter0 |-> 0, counter |-> 0,
         before |-> <<>>, store |-> <<>>, children |-> <<>>, arrays |-> 0,
         current_turn |-> 0]

IsPrefix(s, t) == Len(s) <= Len(t) /\ \A i \in 1..Len(s) : s[i] = t[i]

\* The entered columns are bounded to the scripts of a set, each of which may
\* be continued by up to `free` further columns.
Allowed(s, scripts, free) ==
    \E sc \in scripts :
        \/ IsPrefix(s, sc)
        \/ IsPrefix(sc, s) /\ Len(s) <= Len(sc) + free

----------------------------------------------------------------------------
(* play_game_vs_ai: the terminal game, AI = player 1 moves first *)

\* main(): difficulty 1 = Easy
GameDepth == 2

\* Human inputs beyond a script
GameFree == 2

\* The human's columns of two games against the depth-2 AI: the first
\* twenty of a game whose twenty-first piece fills the board, and the
\* nineteen of a game the AI wins with its twentieth piece.
GameScripts ==
    { <<>>,
      <<4, 1, 6, 2, 0, 4, 1, 5, 5, 3, 5, 5, 2, 2, 1, 4, 5, 0, 6, 6>>,
      <<1, 3, 1, 2, 0, 1, 3, 4, 5, 4, 3, 4, 6, 4, 6, 5, 6, 5, 2>> }

Init ==
    /\ board = create_board
    /\ player = 1
    /\ moves = <<>>
    /\ game_over = FALSE
    /\ run = Idle

\* AI MOVE without `if check_win(board, 1): break`.
AIMoveWithoutWinCheck ==
    /\ ~game_over
    /\ player = 1
    /\ \E best \in {ai_move(board, GameDepth)} :
       \E ai_row \in {get_next_open_row(board, best.col)} :
       \E after \in {drop_piece(board, ai_row, best.col, 1)} :
           /\ board' = after
           /\ game_over' = is_draw(after)
           /\ run' = [Idle EXCEPT !.op = "ai", !.depth = GameDepth, !.ai = 1,
                                  !.col = best.col, !.v = best.v]
    /\ player' = 2
    /\ UNCHANGED moves

\* AI MOVE: the column loop, the drop, and the win / draw checks that break
\* out of the game loop.
AIMove ==
    /\ ~game_over
    /\ player = 1
    /\ \E best \in {ai_move(board, GameDepth)} :
       \E ai_row \in {get_next_open_row(board, best.col)} :
       \E after \in {drop_piece(board, ai_row, best.col, 1)} :
           /\ board' = after
           /\ game_over' = (check_win(after, 1) \/ is_draw(after))
           /\ run' = [Idle EXCEPT !.op = "ai", !.depth = GameDepth, !.ai = 1,
                                  !.col = best.col, !.v = best.v]
    /\ player' = 2
    /\ UNCHANGED moves

\* HUMAN MOVE: an input that is not a legal column is asked for again; a
\* legal one is dropped, followed by the win / draw checks.
HumanMove(col) ==
    /\ ~game_over
    /\ player = 2
    /\ IF is_valid_location(board, col)
       THEN /\ Allowed(Append(moves, col), GameScripts, GameFree)
            /\ \E row \in {get_next_open_row(board, col)} :
               \E after \in {drop_piece(board, row, col, 2)} :
                   /\ board' = after
                   /\ game_over' = (check_win(after, 2) \/ is_draw(after))
            /\ moves' = Append(moves, col)
            /\ player' = 1
            /\ run' = Idle
       ELSE UNCHANGED vars

Next ==
    \/ AIMove
    \/ \E col \in (-1)..COLS : HumanMove(col)

Spec == Init /\ [][Next]_vars

----------------------------------------------------------------------------
(* connect4_evaluation.py: generate_random_board and the two searches of    *)
(* run_experiments applied to the boards it generates                       *)

\* Largest search depth of the benchmark runs
MaxDepth == 2

\* Random columns beyond a script
BenchFree == 1

\* The columns of the game of GameScripts, both players' (AI and human).
FullGame ==
    <<0, 4, 3, 1, 0, 6, 1, 2, 0, 0, 1, 4, 1, 1, 4, 5, 4, 5, 2, 3, 6,
      5, 5, 5, 3, 2, 3, 2, 2, 1, 4, 4, 2, 5, 0, 0, 6, 6, 6, 6, 3, 3>>

BenchScripts == { <<6, 0>>, SubSeq(FullGame, 1, 34) }

InitBench ==
    /\ board = create_board
    /\ player \in Players
    /\ moves = <<>>
    /\ game_over = FALSE
    /\ run = Idle

\* One iteration of the loop of generate_random_board: a random legal column
\* for the player whose turn it is; a winning piece is taken back and ends
\* the loop, as does a board without a legal column.
RandomMove(scripts, free) ==
    /\ ~game_over
    /\ IF valid_locations(board) = <<>>
       THEN /\ game_over' = TRUE
            /\ UNCHANGED <<board, player, moves>>
       ELSE \E col \in 0..(COLS - 1) :
            /\ is_valid_location(board, col)
            /\ Allowed(Append(moves, col), scripts, free)
            /\ \E row \in {get_next_open_row(board, col)} :
               \E after \in {drop_piece(board, row, col, player)} :
                  IF check_win(after, player)
                  THEN /\ board' = [after EXCEPT ![row][col] = 0]
                       /\ game_over' = TRUE
                       /\ UNCHANGED <<player, moves>>
                  ELSE /\ board' = after
                       /\ player' = (IF player = 2 THEN 1 ELSE 2)
                       /\ moves' = Append(moves, col)
                       /\ game_over' = FALSE
    /\ run' = Idle

\* run_experiments: minimax_ab from the full window and minimax_no_pruning
\* on a copy of the same board, each with a fresh counter.
Bench(depth, maximizing_player) ==
    /\ run.op = "idle"
    /\ \E ab \in {minimax_ab(board, depth, -Inf, Inf, maximizing_player)} :
       \E np \in {minimax_no_pruning(board, depth, maximizing_player)} :
          run' = [Idle EXCEPT !.op = "bench", !.depth = depth,
                              !.maximizing = maximizing_player,
                              !.v = ab.v, !.ab_n = ab.n, !.cut = ab.cut,
                              !.skip = ab.skip, !.np_v = np.v, !.np_n = np.n]
    /\ UNCHANGED <<board, player, moves, game_over>>

NextBench ==
    \/ RandomMove(BenchScripts, BenchFree)
    \/ \E depth \in 0..MaxDepth : \E maximizing_player \in BOOLEAN :
          Bench(depth, maximizing_player)

SpecBench == InitBench /\ [][NextBench]_vars

----------------------------------------------------------------------------
(* C1, C2, C3 *)

\* C1: on every generated board, for every depth and both values of
\* maximizing_player, minimax_ab started with the window (-inf, +inf)
\* returns the score minimax_no_pruning returns.
C1_SameScore == run.op = "bench" => run.v = run.np_v

\* C1 witness: a search of depth 2 or more in which the break fired and the
\* two scores agree.
C1_Witness ==
    run.op = "bench" /\ run.depth >= 2 /\ run.cut > 0 /\ run.v = run.np_v

\* C2: the node counter of minimax_ab from the window (-inf, +inf) is at
\* most the node counter of minimax_no_pruning on the same board, depth and
\* maximizing flag.
C2_NodesAtMost == run.op = "bench" => run.ab_n <= run.np_n

\* C2 witness: a search in which pruning saved nodes.
C2_Witness == run.op = "bench" /\ run.ab_n < run.np_n /\ run.ab_n > 1

\* C3 as stated: whenever the `beta <= alpha` break fired at least once, the
\* node count of minimax_ab is strictly smaller than that of
\* minimax_no_pruning (also when it fired only after the last child of a node).
C3_CutoffStrictlyFewer ==
    (run.op = "bench" /\ run.cut > 0) => run.ab_n < run.np_n

\* C3 amended: whenever the break fired at least once at a node that still
\* had an unvisited child, the node count of minimax_ab is strictly smaller
\* than that of minimax_no_pruning.
C3_SkippingCutoffStrictlyFewer ==
    (run.op = "bench" /\ run.skip > 0) => run.ab_n < run.np_n

\* C3 witness: the break fired with an unvisited child left, and the node
\* count is strictly smaller.
C3_Witness == run.op = "bench" /\ run.skip > 0 /\ run.ab_n < run.np_n

----------------------------------------------------------------------------
(* Top-level move selection: the column loop of play_game_vs_ai and the     *)
(* root call of run_pygame_game, applied to boards of legal alternating     *)
(* play that player 1 opens                                                 *)

\* Player 1 takes the bottom cells of columns 0, 1 and 2 in that order while
\* player 2 answers in a, b, c: outside column 3 and never on the floor of
\* columns 0-2.
Side == {4, 5, 6}

FloorFirstScripts ==
    {<<0, a, 1, b, 2, c>> :
        <<a, b, c>> \in (Side \cup {0}) \X (Side \cup {0, 1}) \X (Side \cup {0, 1, 2})}

\* The same with the roles exchanged: player 1, who opens, plays a, b, c and
\* player 2 takes the floor of columns 0, 1 and 2.
FloorSecondScripts ==
    {<<a, 0, b, 1, c, 2>> :
        <<a, b, c>> \in Side \X (Side \cup {0}) \X (Side \cup {0, 1})}

\* A game after which player 1 holds the floor of columns 0-2 and three
\* cells of column 0.
FloorAndStack == <<1, 6, 0, 6, 2, 6, 0, 2, 0, 1>>

ChooseScripts ==
    FloorFirstScripts \cup FloorSecondScripts
        \cup {FloorAndStack, SubSeq(FullGame, 1, 40)}

InitChoose ==
    /\ board = create_board
    /\ player = 1
    /\ moves = <<>>
    /\ game_over = FALSE
    /\ run = Idle

\* play_game_vs_ai, AI MOVE: the AI is player 1; the loop body runs only
\* while no one has won and the board is not full.
ChooseTerminal(depth) ==
    /\ run.op = "idle"
    /\ player = 1
    /\ ~Terminal(board)
    /\ \E best \in {ai_move(board, depth)} :
          run' = [Idle EXCEPT !.op = "terminal", !.depth = depth, !.ai = 1,
                              !.col = best.col, !.v = best.v]
    /\ UNCHANGED <<board, player, moves, game_over>>

\* run_pygame_game, AI TURN: the AI is the player whose turn it is.
ChooseGui(depth) ==
    /\ run.op = "idle"
    /\ ~Terminal(board)
    /\ \E best \in {minimax_with_col(board, depth, -Inf, Inf, TRUE, player)} :
          run' = [Idle EXCEPT !.op = "gui", !.depth = depth, !.ai = player,
                              !.col = best.col, !.v = best.v]
    /\ UNCHANGED <<board, player, moves, game_over>>

NextChoose ==
    \/ RandomMove(ChooseScripts, 0)
    \/ \E depth \in 1..MaxDepth : ChooseTerminal(depth)
    \/ \E depth \in 1..MaxDepth : ChooseGui(depth)

SpecChoose == InitChoose /\ [][NextChoose]_vars

Chosen == run.op \in {"terminal", "gui"}

----------------------------------------------------------------------------
(* C4 - C8 *)

\* C4: on a non-terminal board and at every depth >= 1 the column chosen by
\* the column loop of play_game_vs_ai and by the root call of
\* minimax_with_col is a column 0 <= c < COLS whose top cell is empty, never
\* None and never a full column.
C4_ChosenColumnLegal ==
    Chosen => /\ run.col # None
              /\ run.col \in 0..(COLS - 1)
              /\ is_valid_location(board, run.col)

\* C4 witness: a column was chosen on a board that has a full column.
C4_Witness ==
    /\ Chosen
    /\ \E c \in 0..(COLS - 1) : ~is_valid_location(board, c)
    /\ is_valid_location(board, run.col)

\* The score of playing column c at the root, searched on its own with the
\* full window.
RootScore(b, depth, ai, op, c) ==
    LET child == drop_piece(b, get_next_open_row(b, c), c, ai)
    IN  IF op = "terminal"
        THEN minimax(child, depth - 1, -Inf, Inf, FALSE)
        ELSE minimax_with_col(child, depth - 1, -Inf, Inf, FALSE, ai).v

\* C5: the chosen column is the lowest-indexed of the legal columns that
\* reach the best score at the root: no legal column scores more and no
\* legal column of lower index scores as much.
C5_LowestBestColumn ==
    Chosen =>
        \E best \in {RootScore(board, run.depth, run.ai, run.op, run.col)} :
            \A c \in {x \in 0..(COLS - 1) : is_valid_location(board, x)} :
                \E score \in {RootScore(board, run.depth, run.ai, run.op, c)} :
                    /\ score <= best
                    /\ c < run.col => score < best

\* C5 witness: a column of higher index reaches the same best score as the
\* chosen column and a legal column of lower index scores less.
C5_Witness ==
    /\ Chosen
    /\ run.depth >= 2
    /\ \E c \in 0..(COLS - 1) :
          /\ c > run.col
          /\ is_valid_location(board, c)
          /\ RootScore(board, run.depth, run.ai, run.op, c) = run.v
    /\ \E c \in 0..(COLS - 1) :
          /\ c < run.col
          /\ is_valid_location(board, c)
          /\ RootScore(board, run.depth, run.ai, run.op, c) < run.v

EmptyBoardDepthOne ==
    Chosen /\ board = create_board /\ run.depth = 1 /\ run.ai = 1

\* C6 as stated: on the empty board with depth 1 and the AI playing player 1
\* the chosen column is column 3.
C6_CenterColumn == EmptyBoardDepthOne => run.col = 3

\* C6 amended: on the empty board with depth 1 and the AI playing player 1
\* every column scores 0 (one piece completes no window of two) and the
\* chosen column is column 0.
C6_FirstColumn == EmptyBoardDepthOne => (run.col = 0 /\ run.v = 0)

\* C6 witness: the selection has run on the empty board at depth 1.
C6_Witness == EmptyBoardDepthOne /\ run.col = 0

CellsOf(b, p) ==
    {rc \in (0..(ROWS - 1)) \X (0..(COLS - 1)) : b[rc[1]][rc[2]] = p}

Floor012 == {<<ROWS - 1, 0>>, <<ROWS - 1, 1>>, <<ROWS - 1, 2>>}

\* Player p holds the bottom cells of columns 0, 1, 2 and nothing else, the
\* other player holds three cells, and column 3 is empty.
FloorThree(b, p) ==
    /\ CellsOf(b, p) = Floor012
    /\ Cardinality(CellsOf(b, Other(p))) = 3
    /\ get_next_open_row(b, 3) = ROWS - 1

\* C7 as stated: on a board where player 1 holds row 5, columns 0, 1 and 2
\* and column 3 is open with landing row 5, the selection for player 1
\* returns column 3 at every depth from 1 to MaxDepth.
C7_CompletesRow ==
    (/\ Chosen /\ run.ai = 1
     /\ Floor012 \subseteq CellsOf(board, 1)
     /\ get_next_open_row(board, 3) = ROWS - 1) => run.col = 3

\* C7 amended: on a board where player 1 holds row 5, columns 0, 1 and 2 and
\* no other cell, player 2 holds three cells and column 3 is empty, the
\* selection for player 1 returns column 3 at every depth from 1 to MaxDepth.
C7_CompletesRowOfThree ==
    (Chosen /\ run.ai = 1 /\ FloorThree(board, 1)) => run.col = 3

\* C7 witness: the selection has run at depth 2 or more on such a board
\* and returned column 3.
C7_Witness ==
    Chosen /\ run.ai = 1 /\ run.depth >= 2 /\ FloorThree(board, 1) /\ run.col = 3

\* The columns whose landing cell completes a window that holds three
\* pieces of player p.
CompletingColumns(b, p) ==
    {c \in 0..(COLS - 1) :
        /\ is_valid_location(b, c)
        /\ check_win(drop_piece(b, get_next_open_row(b, c), c, p), p)}

----------------------------------------------------------------------------
(* check_win applied to a family of boards *)

\* A position without four in a row anywhere (runs of two in the columns,
\* alternating along the rows), used to fill the cells below the pieces that
\* the family places.
Filler(r, c) == 1 + (((r \div 2) + c) % 2)

\* Player p on top of the columns c0..c0+3 at the rows tops[0..3], the cells
\* below them filled, every other cell empty.
LineBoard(p, c0, tops) ==
    [r \in 0..(ROWS - 1) |-> [c \in 0..(COLS - 1) |->
        IF c < c0 \/ c > c0 + 3 THEN 0
        ELSE IF r < tops[c - c0] THEN 0
        ELSE IF r = tops[c - c0] THEN p
        ELSE Filler(r, c)]]

\* One column holding the stack `stack` (bottom first), every other cell empty.
StackBoard(col, stack) ==
    [r \in 0..(ROWS - 1) |-> [c \in 0..(COLS - 1) |->
        IF c = col /\ ROWS - r <= Len(stack) THEN stack[ROWS - r] ELSE 0]]

Stacks == UNION {[1..h -> Players] : h \in 1..ROWS}

WinBoards ==
    {LineBoard(p, c0, tops) :
        p \in Players, c0 \in 0..(COLS - 4), tops \in [0..3 -> 0..(ROWS - 1)]}
    \cup {StackBoard(col, stack) : col \in 0..(COLS - 1), stack \in Stacks}

InitWin ==
    /\ board \in WinBoards
    /\ player = 1
    /\ moves = <<>>
    /\ game_over = FALSE
    /\ run = Idle

CheckWin ==
    /\ run.op = "idle"
    /\ run' = [Idle EXCEPT !.op = "check_win",
                           !.won = <<check_win(board, 1), check_win(board, 2)>>]
    /\ UNCHANGED <<board, player, moves, game_over>>

\* heuristic(board, p)
Heuristic(p) ==
    /\ run.op = "idle"
    /\ run' = [Idle EXCEPT !.op = "heuristic", !.ai = p, !.v = heuristic(board, p)]
    /\ UNCHANGED <<board, player, moves, game_over>>

NextWin ==
    \/ CheckWin
    \/ \E p \in Players : Heuristic(p)

SpecWin == InitWin /\ [][NextWin]_vars

----------------------------------------------------------------------------
(* C9 *)

InGrid(r, c) == r >= 0 /\ r < ROWS /\ c >= 0 /\ c < COLS

\* row, column, down-right diagonal, up-right diagonal
Directions == {<<0, 1>>, <<1, 0>>, <<1, 1>>, <<-1, 1>>}

\* Four consecutive cells from (r, c) in direction d, all inside the grid,
\* all holding p.
RunAt(b, p, r, c, d) ==
    \A i \in 0..3 :
        /\ InGrid(r + i * d[1], c + i * d[2])
        /\ b[r + i * d[1]][c + i * d[2]] = p

HasRun(b, p) ==
    \E r \in 0..(ROWS - 1) : \E c \in 0..(COLS - 1) : \E d \in Directions :
        RunAt(b, p, r, c, d)

\* The windows the loops of check_win read, as sets of cells.
WindowsRead ==
    LET cells(w) == {w[i] : i \in 0..3}
    IN  {cells(HorizontalWindows[k]) : k \in DOMAIN HorizontalWindows}
        \cup {cells(VerticalWindows[k]) : k \in DOMAIN VerticalWindows}
        \cup {cells(PositiveDiagonalWindows[k]) : k \in DOMAIN PositiveDiagonalWindows}
        \cup {cells(NegativeDiagonalWindows[k]) : k \in DOMAIN NegativeDiagonalWindows}

\* Every window of four consecutive cells inside the grid.
GridWindows ==
    {{<<r + i * d[1], c + i * d[2]>> : i \in 0..3} :
        <<r, c, d>> \in {x \in (0..(ROWS - 1)) \X (0..(COLS - 1)) \X Directions :
            \A i \in 0..3 : InGrid(x[1] + i * x[3][1], x[2] + i * x[3][2])}}

\* C9: check_win(board, p) is true exactly when some window of four
\* consecutive cells of a row, a column or either diagonal, lying inside the
\* grid, holds p in all four cells; the windows check_win reads are exactly
\* the windows inside the grid.
C9_CheckWinIffRun ==
    run.op = "check_win" =>
        /\ \A p \in Players : run.won[p] = HasRun(board, p)
        /\ WindowsRead = GridWindows

\* C9 witness: check_win has reported a win for a board whose only run of
\* four lies on an up-right diagonal that starts in the bottom row.
C9_Witness ==
    /\ run.op = "check_win"
    /\ run.won[1]
    /\ \E c \in 0..(COLS - 4) : RunAt(board, 1, ROWS - 1, c, <<-1, 1>>)
    /\ \A r \in 0..(ROWS - 1) : \A c \in 0..(COLS - 1) : \A d \in Directions :
          RunAt(board, 1, r, c, d) => (r = ROWS - 1 /\ d = <<-1, 1>>)

----------------------------------------------------------------------------
(* C10 *)

\* C10: is_draw and check_win are never both true of the board of a game
\* (the claim as stated; the last piece of a game can both fill the board
\* and complete four in a row).
C10_DrawExcludesWin ==
    ~(is_draw(board) /\ (check_win(board, 1) \/ check_win(board, 2)))

----------------------------------------------------------------------------
(* get_next_open_row followed by drop_piece, on any column of the board *)

\* Columns entered beyond a script
DropFree == 3

\* Column 0 filled, then column 1.
DropScripts == { <<>>, <<0, 0, 0, 0, 0, 0, 1, 1, 1, 1, 1, 1>> }

InitDrop ==
    /\ board = create_board
    /\ player = 1
    /\ moves = <<>>
    /\ game_over = FALSE
    /\ run = Idle

\* row = get_next_open_row(board, col); drop_piece(board, row, col, player)
\* as every caller writes it (ai_terminal.py:177-178, 206-207).  run keeps
\* the row returned, the exception raised if any, and whether a cell of the
\* board was written.  game_over marks a board that a drop into a full
\* column has been tried on.
Drop(col) ==
    /\ ~game_over
    /\ Allowed(Append(moves, col), DropScripts, DropFree)
    /\ \E full \in {~is_valid_location(board, col)} :
       \E row \in {get_next_open_row(board, col)} :
       \E raised \in {drop_piece_raises(row, col)} :
       \E after \in {IF raised = "" THEN drop_piece(board, row, col, player)
                     ELSE board} :
          /\ board' = after
          /\ run' = [Idle EXCEPT !.op = IF full THEN "drop_full" ELSE "drop",
                                 !.col = col, !.row = row, !.raised = raised,
                                 !.wrote = (after # board)]
          /\ game_over' = full
          /\ moves' = IF full THEN moves ELSE Append(moves, col)
          /\ player' = IF full THEN player ELSE Other(player)

\* children = get_children(board, p), the caller's board being the only
\* array that exists before the call.  board is the caller's array after it.
GetChildren(p) ==
    /\ ~game_over
    /\ \E got \in {store_get_children(<<board>>, 1, p)} :
          /\ board' = got.store[1]
          /\ run' = [Idle EXCEPT !.op = "get_children", !.ai = p,
                                 !.before = board, !.store = got.store,
                                 !.children = got.children]
    /\ UNCHANGED <<player, moves, game_over>>

NextDrop ==
    \/ \E col \in 0..(COLS - 1) : Drop(col)
    \/ \E p \in Players : GetChildren(p)

SpecDrop == InitDrop /\ [][NextDrop]_vars

----------------------------------------------------------------------------
(* C11 *)

\* C11: a drop into a full column is rejected: get_next_open_row /
\* drop_piece raise InvalidColumn instead of returning a row or writing a
\* cell, and the board is left unchanged.
C11_FullColumnRejected ==
    run.op = "drop_full" => (run.raised = "InvalidColumn" /\ ~run.wrote)


----------------------------------------------------------------------------
(* The four searches called directly on a board *)

\* A whole game that fills the board without four in a row, and two games
\* that end with four in a column for player 1 and for player 2.
DrawnGame ==
    <<5, 3, 2, 3, 1, 5, 3, 1, 0, 1, 4, 1, 2, 5, 0, 5, 6, 6, 2, 0, 6,
      0, 4, 2, 3, 0, 3, 4, 2, 3, 2, 6, 0, 4, 1, 1, 5, 4, 4, 5, 6, 6>>

PlayerOneWins == <<0, 1, 0, 1, 0, 1, 0>>

PlayerTwoWins == <<0, 1, 0, 1, 0, 1, 6, 1>>

\* The board after the columns of s are entered in turn, player 1 first:
\* the piece entered i-th lies in column s[i] at the height given by the
\* number of entries of that column up to i.
Position(s) ==
    [r \in 0..(ROWS - 1) |-> [c \in 0..(COLS - 1) |->
        LET at == {i \in 1..Len(s) :
                     /\ s[i] = c
                     /\ Cardinality({k \in 1..i : s[k] = c}) = ROWS - r}
        IN  IF at = {} THEN 0 ELSE 1 + (((CHOOSE i \in at : TRUE) - 1) % 2)]]

SearchPositions ==
    {SubSeq(DrawnGame, 1, n) :
        n \in {k \in 0..Len(DrawnGame) : k % 3 = 0 \/ k >= Len(DrawnGame) - 6}}
        \cup {PlayerOneWins, PlayerTwoWins}
        \cup {SubSeq(PlayerOneWins, 1, Len(PlayerOneWins) - 1),
              SubSeq(PlayerTwoWins, 1, Len(PlayerTwoWins) - 1)}

InitSearch ==
    /\ moves \in SearchPositions
    /\ board = Position(moves)
    /\ player = 1 + (Len(moves) % 2)
    /\ game_over = Terminal(board)
    /\ run = Idle

\* minimax, minimax_ab, minimax_no_pruning from the full window and
\* minimax_with_col for ai_player, each called on the board as it is.  None
\* of them has a raise statement and none indexes an empty list on these
\* inputs, so nothing is raised.
Search(depth, maximizing_player, ai_player) ==
    /\ run.op = "idle"
    /\ \E mm \in {minimax(board, depth, -Inf, Inf, maximizing_player)} :
       \E ab \in {minimax_ab(board, depth, -Inf, Inf, maximizing_player)} :
       \E np \in {minimax_no_pruning(board, depth, maximizing_player)} :
       \E wc \in {minimax_with_col(board, depth, -Inf, Inf, maximizing_player, ai_player)} :
          run' = [Idle EXCEPT !.op = "search", !.depth = depth,
                              !.maximizing = maximizing_player, !.ai = ai_player,
                              !.alpha = -Inf, !.beta = Inf,
                              !.mm_v = mm, !.v = ab.v, !.ab_n = ab.n,
                              !.np_v = np.v, !.np_n = np.n,
                              !.wc_v = wc.v, !.wc_col = wc.col, !.raised = ""]
    /\ UNCHANGED <<board, player, moves, game_over>>

\* The caller goes on to another call.
Return ==
    /\ run.op # "idle"
    /\ run' = Idle
    /\ UNCHANGED <<board, player, moves, game_over>>

\* (alpha, beta) pairs handed to the searches: the full window, a window
\* around 0, an empty window and an inverted one.
Windows == {<<-Inf, Inf>>, <<-20, 20>>, <<0, 0>>, <<10, -10>>}

\* Values of counter['nodes'] before a call.
Counters == {0, 5}

\* minimax of ai_terminal and minimax_ab of connect4_evaluation called with
\* the same board, depth, alpha, beta and maximizing_player, the latter
\* with a counter dict holding `counter`.
SearchCounted(depth, w, maximizing_player, counter) ==
    /\ run.op = "idle"
    /\ \E mm \in {minimax(board, depth, w[1], w[2], maximizing_player)} :
       \E ab \in {minimax_ab_counter(board, depth, w[1], w[2],
                                     maximizing_player, counter)} :
          run' = [Idle EXCEPT !.op = "search_counted", !.depth = depth,
                              !.maximizing = maximizing_player,
                              !.alpha = w[1], !.beta = w[2],
                              !.mm_v = mm, !.v = ab.v,
                              !.counter0 = counter, !.counter = ab.counter]
    /\ UNCHANGED <<board, player, moves, game_over>>

\* The caller's board is the one array that exists; minimax, minimax_ab,
\* minimax_no_pruning and minimax_with_col are called on it one after the
\* other.  board is the caller's array after the calls.
SearchStore(depth, maximizing_player, ai_player) ==
    /\ run.op = "idle"
    /\ \E mm \in {store_minimax(<<board>>, 1, depth, -Inf, Inf, maximizing_player)} :
       \E ab \in {store_minimax_ab(mm.store, 1, depth, -Inf, Inf, maximizing_player)} :
       \E np \in {store_minimax_no_pruning(ab.store, 1, depth, maximizing_player)} :
       \E wc \in {store_minimax_with_col(np.store, 1, depth, -Inf, Inf,
                                         maximizing_player, ai_player)} :
          /\ board' = wc.store[1]
          /\ run' = [Idle EXCEPT !.op = "search_store", !.depth = depth,
                                 !.maximizing = maximizing_player, !.ai = ai_player,
                                 !.alpha = -Inf, !.beta = Inf, !.before = board,
                                 !.mm_v = mm.v, !.v = ab.v, !.np_v = np.v,
                                 !.wc_v = wc.v, !.wc_col = wc.col,
                                 !.arrays = Len(wc.store)]
    /\ UNCHANGED <<player, moves, game_over>>

\* The column loop of play_game_vs_ai run on the caller's board when it is
\* the AI's turn, up to the choice of best_col.
RootLoopStore(depth) ==
    /\ run.op = "idle"
    /\ player = 1
    /\ ~Terminal(board)
    /\ \E best \in {store_best_col_loop(<<board>>, 1, depth, 0, -Inf, None)} :
          /\ board' = best.store[1]
          /\ run' = [Idle EXCEPT !.op = "root_loop_store", !.depth = depth,
                                 !.maximizing = TRUE, !.ai = 1, !.before = board,
                                 !.col = best.col, !.v = best.v,
                                 !.arrays = Len(best.store)]
    /\ UNCHANGED <<player, moves, game_over>>

NextSearch ==
    \/ \E depth \in 0..MaxDepth : \E maximizing_player \in BOOLEAN :
       \E ai_player \in Players : Search(depth, maximizing_player, ai_player)
    \/ \E depth \in 0..MaxDepth : \E maximizing_player \in BOOLEAN :
       \E ai_player \in Players : SearchStore(depth, maximizing_player, ai_player)
    \/ \E depth \in 1..MaxDepth : RootLoopStore(depth)
    \/ \E depth \in 0..MaxDepth : \E w \in Windows :
       \E maximizing_player \in BOOLEAN : \E counter \in Counters :
          SearchCounted(depth, w, maximizing_player, counter)
    \/ Return

SpecSearch == InitSearch /\ [][NextSearch]_vars

NoLegalColumn == valid_locations(board) = <<>>

----------------------------------------------------------------------------
(* C12 *)

\* C12 as stated: a search called on a board with no legal column raises
\* NoLegalMoves instead of returning a score or a (column, score) pair.
C12_FullBoardFails ==
    (run.op = "search" /\ NoLegalColumn) => run.raised = "NoLegalMoves"

\* C12 amended: on a board with no legal column nothing is raised: at every
\* depth minimax, minimax_ab and minimax_no_pruning return heuristic(board, 1)
\* and minimax_with_col returns (None, heuristic(board, ai_player)).
C12_FullBoardScored ==
    (run.op = "search" /\ NoLegalColumn) =>
        /\ run.raised = ""
        /\ run.mm_v = heuristic(board, 1)
        /\ run.v = heuristic(board, 1)
        /\ run.np_v = heuristic(board, 1)
        /\ run.wc_v = heuristic(board, run.ai)
        /\ run.wc_col = None

\* C12 witness: a search of depth 1 or more has returned on the full board.
C12_Witness ==
    run.op = "search" /\ NoLegalColumn /\ run.depth >= 1 /\ run.raised = ""

----------------------------------------------------------------------------
(* C13 *)

\* Every column is a run of pieces from row ROWS-1 upward with only empty
\* cells above it: no empty cell has a piece above it.
Gravity(b) ==
    \A c \in 0..(COLS - 1) : \A r \in 0..(ROWS - 1) :
        b[r][c] = 0 => \A q \in 0..r : b[q][c] = 0

\* C13: from create_board() and after any sequence of moves
\* drop_piece(board, get_next_open_row(board, c), c, p) on columns c for
\* which is_valid_location holds, no empty cell has a piece above it.
C13_Gravity == run.op # "drop_full" => Gravity(board)

\* C13 witness: a piece was dropped on top of two others while another
\* column is still empty.
C13_Witness ==
    /\ run.op = "drop" /\ run.row = ROWS - 3
    /\ \E c \in 0..(COLS - 1) : board[ROWS - 1][c] = 0
    /\ Gravity(board)

----------------------------------------------------------------------------
(* C14 *)

LegalColumns(b) == {c \in 0..(COLS - 1) : b[0][c] = 0}

\* The k-th legal column in ascending order.
LegalColumn(b, k) ==
    CHOOSE c \in LegalColumns(b) :
        Cardinality({d \in LegalColumns(b) : d < c}) = k - 1

\* The lowest empty row of a column that has one.
LandingRow(b, c) ==
    CHOOSE r \in 0..(ROWS - 1) :
        b[r][c] = 0 /\ \A q \in (r + 1)..(ROWS - 1) : b[q][c] # 0

\* C14: get_children(board, player) leaves the input board unchanged and
\* returns one board per legal column in strictly ascending column order;
\* the k-th returned board equals the input except in the landing cell of
\* the k-th legal column, which holds player; the returned boards are
\* arrays of their own, distinct from each other and from the input.
C14_ChildrenAreCopies ==
    run.op = "get_children" =>
        /\ board = run.before
        /\ Len(run.children) = Cardinality(LegalColumns(run.before))
        /\ \A k \in 1..Len(run.children) :
              \E c \in {LegalColumn(run.before, k)} :
                 run.store[run.children[k]] =
                    [r \in 0..(ROWS - 1) |-> [d \in 0..(COLS - 1) |->
                        IF r = LandingRow(run.before, c) /\ d = c
                        THEN run.ai ELSE run.before[r][d]]]
        /\ \A k \in 1..Len(run.children) :
              /\ run.children[k] # 1
              /\ \A j \in 1..Len(run.children) :
                    j # k => run.children[j] # run.children[k]

\* C14 witness: get_children has returned on a board with a full column and
\* at least two legal columns.
C14_Witness ==
    /\ run.op = "get_children"
    /\ Len(run.children) >= 2
    /\ Len(run.children) < COLS
    /\ board = run.before

----------------------------------------------------------------------------
(* C15 *)

\* C15: for every board, depth, alpha, beta and maximizing flag and every
\* initial value of the node counter, minimax_ab returns the score that
\* minimax of ai_terminal returns for the same arguments.
C15_CounterDoesNotChangeScore ==
    run.op = "search_counted" => run.v = run.mm_v

\* C15 witness: a search of depth 2 from a narrow window on a board in
\* play, started with a counter that already held a count, visited more
\* than one node and returned a score inside the window.
C15_Witness ==
    /\ run.op = "search_counted"
    /\ run.depth = 2
    /\ ~Terminal(board)
    /\ run.alpha = -20 /\ run.beta = 20
    /\ run.counter0 > 0
    /\ run.counter > run.counter0 + 1
    /\ run.v = run.mm_v
    /\ run.v > run.alpha /\ run.v < run.beta

----------------------------------------------------------------------------
(* C16 *)

\* The score table: own, opp and empty are the numbers of cells of a window
\* holding the player, the opponent and nothing.
TableScore(own, opp, empty) ==
    CASE own = 4 -> 1000
      [] own = 3 /\ empty = 1 -> 100
      [] own = 2 /\ empty = 2 -> 10
      [] opp = 4 -> -1500
      [] opp = 3 /\ empty = 1 -> -100
      [] opp = 2 /\ empty = 2 -> -10
      [] OTHER -> 0

\* The table score of the cells `cells` of board b for player p.
CellsScore(b, cells, p) ==
    TableScore(Cardinality({x \in cells : b[x[1]][x[2]] = p}),
               Cardinality({x \in cells : b[x[1]][x[2]] = Other(p)}),
               Cardinality({x \in cells : b[x[1]][x[2]] = 0}))

RECURSIVE TableSum(_, _, _)
TableSum(b, windows, p) ==
    IF windows = {} THEN 0
    ELSE LET w == CHOOSE x \in windows : TRUE
         IN  CellsScore(b, w, p) + TableSum(b, windows \ {w}, p)

\* The 81 possible contents of a window.
AllWindows == [1..4 -> {0, 1, 2}]

\* C16: heuristic(board, player) is the sum, over every window of four
\* consecutive cells inside the grid in the four directions, of the table
\* score of the window; score_window gives every one of the 81 possible
\* windows its table score, 0 for every combination the table does not list.
C16_HeuristicIsTableSum ==
    /\ run.op = "heuristic" => run.v = TableSum(board, GridWindows, run.ai)
    /\ \A window \in AllWindows : \A p \in Players :
          score_window(window, p) =
              TableScore(Cardinality({i \in 1..4 : window[i] = p}),
                         Cardinality({i \in 1..4 : window[i] = Other(p)}),
                         Cardinality({i \in 1..4 : window[i] = 0}))

\* C16 witness: heuristic has scored a board on which one window holds
\* three of the player's pieces and one of the opponent's (a combination
\* the table does not list), another holds four of the player's pieces and
\* another two of the opponent's and two empty cells.
C16_Witness ==
    /\ run.op = "heuristic"
    /\ \E w \in GridWindows :
          /\ Cardinality({x \in w : board[x[1]][x[2]] = run.ai}) = 3
          /\ Cardinality({x \in w : board[x[1]][x[2]] = Other(run.ai)}) = 1
    /\ \E w \in GridWindows : CellsScore(board, w, run.ai) = 1000
    /\ \E w \in GridWindows : CellsScore(board, w, run.ai) = -10
    /\ run.v = TableSum(board, GridWindows, run.ai)

----------------------------------------------------------------------------
(* C17 *)

\* C17: minimax, minimax_ab, minimax_no_pruning, minimax_with_col and the
\* column loop of play_game_vs_ai leave the board they are given as it was:
\* after the calls the caller's array holds what it held before.  The
\* scores and columns they return are those of the searches on the board's
\* value.
C17_SearchLeavesBoard ==
    /\ run.op = "search_store" =>
          /\ board = run.before
          /\ run.mm_v = minimax(run.before, run.depth, -Inf, Inf, run.maximizing)
          /\ run.v = minimax_ab(run.before, run.depth, -Inf, Inf, run.maximizing).v
          /\ run.np_v = minimax_no_pruning(run.before, run.depth, run.maximizing).v
          /\ \E wc \in {minimax_with_col(run.before, run.depth, -Inf, Inf,
                                         run.maximizing, run.ai)} :
                run.wc_v = wc.v /\ run.wc_col = wc.col
    /\ run.op = "root_loop_store" =>
          /\ board = run.before
          /\ \E best \in {ai_move(run.before, run.depth)} :
                run.col = best.col /\ run.v = best.v

\* C17 witness: the four searches have returned from depth 2 on a board in
\* play, having made arrays of their own.
C17_Witness ==
    /\ run.op = "search_store"
    /\ run.depth = 2
    /\ ~Terminal(run.before)
    /\ run.arrays > COLS
    /\ board = run.before

----------------------------------------------------------------------------
(* C18 *)

Finite(v) == -Inf < v /\ v < Inf

\* C18 as stated: a terminal board is valued +inf when the perspective
\* player has four in a row, -inf when the opponent has, 0 when it is full
\* without a win (the perspective player is 1 for minimax, minimax_ab and
\* minimax_no_pruning and ai_player for minimax_with_col).
C18_TerminalLeafInfinite ==
    (run.op = "search" /\ Terminal(board)) =>
        /\ \A v \in {run.mm_v, run.v, run.np_v} :
              v = evaluate_board(board, 1)
        /\ run.wc_v = evaluate_board(board, run.ai)

\* C18 amended: a terminal board is valued by the heuristic like any other
\* leaf: minimax, minimax_ab and minimax_no_pruning return heuristic(board, 1)
\* and minimax_with_col returns heuristic(board, ai_player), which is 0 on a
\* full board without a win and a finite window sum on a won board; no
\* search returns +inf or -inf.
C18_TerminalLeafHeuristic ==
    run.op = "search" =>
        /\ Finite(run.mm_v) /\ Finite(run.v) /\ Finite(run.np_v) /\ Finite(run.wc_v)
        /\ Terminal(board) =>
              /\ \A v \in {run.mm_v, run.v, run.np_v} : v = heuristic(board, 1)
              /\ run.wc_v = heuristic(board, run.ai)
              /\ (~check_win(board, 1) /\ ~check_win(board, 2)) =>
                    \A v \in {run.mm_v, run.v, run.np_v, run.wc_v} : v = 0

\* C18 witness: a search called on a board on which player 1 has four in a
\* row has returned a finite positive score.
C18_Witness ==
    /\ run.op = "search"
    /\ check_win(board, 1)
    /\ run.ai = 1
    /\ run.mm_v > 0 /\ Finite(run.mm_v)
    /\ run.wc_v = run.mm_v

----------------------------------------------------------------------------
(* C19 *)

\* C19: on a non-terminal board, at every depth >= 1 and with the AI as
\* player 1, the column the loop of play_game_vs_ai selects is the column
\* minimax_with_col(board, depth, -inf, +inf, True, 1) returns.
C19_CallersAgree ==
    run.op = "terminal" =>
        run.col = minimax_with_col(board, run.depth, -Inf, Inf, TRUE, 1).col

\* C19 witness: the loop of play_game_vs_ai has selected, at depth 2, a
\* column other than the lowest legal one, with a score that beats what an
\* earlier column gets on its own and ties with none, and it is the column
\* minimax_with_col returns.
C19_Witness ==
    /\ run.op = "terminal"
    /\ run.depth = 2
    /\ run.col # valid_locations(board)[1]
    /\ run.v > RootScore(board, 2, 1, "terminal", valid_locations(board)[1])
    /\ run.col = minimax_with_col(board, 2, -Inf, Inf, TRUE, 1).col

----------------------------------------------------------------------------
(* run_pygame_game: the GUI game.  run.ai is the AI's player number,        *)
(* run.depth the depth of the difficulty screen, run.current_turn is        *)
(* current_turn (0 = human, 1 = AI); player is the piece the next drop      *)
(* places, moves are the columns the human clicked with effect.             *)

\* difficulty_screen: Easy
GuiDepth == 2

GuiOps == {"gui", "gui_human", "gui_ai"}

\* The human's columns of three games against the depth-2 AI when the human
\* moves first: one that fills the board without a winner and one that the
\* human wins; and of one game when the AI moves first.
GuiScripts(ai) ==
    IF ai = 2
    THEN { <<>>,
           <<0, 1, 6, 2, 0, 2, 4, 1, 6, 3, 4, 4, 1, 6, 2, 5, 6, 5, 6, 3, 3>>,
           <<3, 2, 3, 2, 3, 6, 0, 3, 4, 1, 5, 1, 2, 5, 5, 4, 6, 0, 6, 4>> }
    ELSE GameScripts

\* turn = turn_select_screen(...): 0 when the human goes first.
\* human = 1 if turn == 0 else 2; ai = 2 if human == 1 else 1;
\* current_turn = 0 if turn == 0 else 1
InitGui(turn) ==
    \E human \in {IF turn = 0 THEN 1 ELSE 2} :
    \E ai \in {IF human = 1 THEN 2 ELSE 1} :
    \E current_turn \in {IF turn = 0 THEN 0 ELSE 1} :
        /\ board = create_board
        /\ player = IF current_turn = 0 THEN human ELSE ai
        /\ moves = <<>>
        /\ game_over = FALSE
        /\ run = [Idle EXCEPT !.op = "gui", !.ai = ai, !.depth = GuiDepth,
                              !.current_turn = current_turn]

\* The MOUSEBUTTONDOWN handler of the event loop clicking whatever the turn.
GuiClickAnyTurn(col) ==
    /\ run.op \in GuiOps
    /\ ~game_over
    /\ IF is_valid_location(board, col)
       THEN \E human \in {Other(run.ai)} :
            \E row \in {get_next_open_row(board, col)} :
            \E after \in {drop_piece(board, row, col, human)} :
            \E over \in {check_win(after, human) \/ is_draw(after)} :
               /\ Allowed(Append(moves, col), GuiScripts(run.ai), GameFree)
               /\ board' = after
               /\ moves' = Append(moves, col)
               /\ game_over' = over
               /\ run' = [run EXCEPT !.op = "gui_human", !.col = col,
                                     !.current_turn = IF over THEN @ ELSE 1]
               /\ player' = IF over THEN player ELSE run.ai
       ELSE UNCHANGED vars

\* HUMAN TURN: a MOUSEBUTTONDOWN event at column col.  It is acted on when
\* current_turn == 0 and the column is legal: the human's piece is dropped,
\* a win or a draw ends the game, otherwise current_turn = 1.
GuiClick(col) ==
    /\ run.op \in GuiOps
    /\ ~game_over
    /\ IF run.current_turn = 0 /\ is_valid_location(board, col)
       THEN \E human \in {Other(run.ai)} :
            \E row \in {get_next_open_row(board, col)} :
            \E after \in {drop_piece(board, row, col, human)} :
            \E over \in {check_win(after, human) \/ is_draw(after)} :
               /\ Allowed(Append(moves, col), GuiScripts(run.ai), GameFree)
               /\ board' = after
               /\ moves' = Append(moves, col)
               /\ game_over' = over
               /\ run' = [run EXCEPT !.op = "gui_human", !.col = col,
                                     !.current_turn = IF over THEN @ ELSE 1]
               /\ player' = IF over THEN player ELSE run.ai
       ELSE UNCHANGED vars

\* AI TURN: when current_turn == 1 and the game is not over the column of
\* minimax_with_col is dropped if it is a legal one; a win or a draw ends
\* the game, otherwise current_turn = 0.
GuiAITurn ==
    /\ run.op \in GuiOps
    /\ run.current_turn = 1
    /\ ~game_over
    /\ \E best \in {minimax_with_col(board, run.depth, -Inf, Inf, TRUE, run.ai)} :
          IF best.col # None /\ is_valid_location(board, best.col)
          THEN \E ai_row \in {get_next_open_row(board, best.col)} :
               \E after \in {drop_piece(board, ai_row, best.col, run.ai)} :
               \E over \in {check_win(after, run.ai) \/ is_draw(after)} :
                  /\ board' = after
                  /\ game_over' = over
                  /\ run' = [run EXCEPT !.op = "gui_ai", !.col = best.col,
                                        !.v = best.v,
                                        !.current_turn = IF over THEN @ ELSE 0]
                  /\ player' = IF over THEN player ELSE Other(run.ai)
                  /\ UNCHANGED moves
          ELSE UNCHANGED vars

NextGui ==
    \/ \E col \in (-1)..COLS : GuiClick(col)
    \/ GuiAITurn

\* Both game loops: a game is either the terminal game or a GUI game with
\* one of the two turn orders.
InitGames ==
    \/ Init
    \/ \E turn \in {0, 1} : InitGui(turn)

NextGames ==
    \/ run.op \notin GuiOps /\ Next
    \/ NextGui

SpecGames == InitGames /\ [][NextGames]_vars

----------------------------------------------------------------------------
(* C20 *)

Cells == (0..(ROWS - 1)) \X (0..(COLS - 1))

Pieces(b, p) == Cardinality({x \in Cells : b[x[1]][x[2]] = p})

\* The cells a step writes.
Placed == {x \in Cells : board'[x[1]][x[2]] # board[x[1]][x[2]]}

\* C20: in every state of the terminal game and of the GUI game with either
\* turn order, player 1 has as many pieces as player 2 or one more, and
\* while the game goes on the player to move is player 1 when the counts
\* are equal and player 2 otherwise; every step places at most one piece,
\* on an empty cell, belonging to the player whose turn it is, and passes
\* the turn to the other player unless it ends the game.
C20_StrictAlternation ==
    /\ [](/\ Pieces(board, 1) - Pieces(board, 2) \in {0, 1}
          /\ ~game_over => player = 1 + (Pieces(board, 1) - Pieces(board, 2)))
    /\ [][/\ Cardinality(Placed) <= 1
          /\ \A x \in Placed : /\ board[x[1]][x[2]] = 0
                               /\ board'[x[1]][x[2]] = player
          /\ (Placed # {} /\ ~game_over') => player' = Other(player)]_vars

\* C20 witness: a GUI game in which the human moved first has filled the
\* board, twenty-one pieces each.
C20_Witness ==
    /\ run.op \in GuiOps
    /\ run.ai = 2
    /\ Pieces(board, 1) = 21
    /\ Pieces(board, 2) = 21

----------------------------------------------------------------------------
(* The game loops as they are scheduled: the AI's block runs whenever it is *)
(* the AI's turn, without waiting for anything, and drops the AI's piece.   *)
(* The human's input is not scheduled by the program.                       *)

\* The game is on and the next piece is the human's.
HumanTurn ==
    /\ ~game_over
    /\ IF run.op \in GuiOps THEN run.current_turn = 0 ELSE player = 2

\* The AI's block of either loop, whatever column it chooses: the AI's
\* piece lands in a legal column.
AIPlaces ==
    /\ ~game_over
    /\ ~HumanTurn
    /\ \E ai \in {IF run.op \in GuiOps THEN run.ai ELSE 1} :
       \E c \in 0..(COLS - 1) :
          /\ is_valid_location(board, c)
          /\ board' = drop_piece(board, get_next_open_row(board, c), c, ai)

SpecGamesFair == SpecGames /\ WF_board(AIPlaces)

----------------------------------------------------------------------------
(* C21 *)

Occupied(b) == Cardinality({x \in Cells : b[x[1]][x[2]] # 0})

\* C21: the game loops stop at the first terminal board: the loop has been
\* left exactly when a player has four in a row or the top row is full,
\* and from then on the board stays as it is; every step adds at most one
\* piece and removes none, so no game has more than ROWS * COLS placements;
\* and every game in which the human, whenever it is their turn, eventually
\* enters a legal column, ends.
C21_StopsAtFirstTerminal ==
    /\ [](game_over <=> Terminal(board))
    /\ [](Occupied(board) <= ROWS * COLS)
    /\ [][/\ game_over => board' = board
          /\ Occupied(board') \in {Occupied(board), Occupied(board) + 1}]_vars
    /\ ([]<>(~HumanTurn)) => <>game_over

\* C21 witness: the terminal game has ended with four in a row for the AI
\* on a board that is not full.
C21_Witness ==
    /\ run.op = "ai"
    /\ game_over
    /\ check_win(board, 1)
    /\ ~is_draw(board)
    /\ Occupied(board) < ROWS * COLS

=============================================================================
